---------------------------- MODULE Spec2Model ----------------------------
(***************************************************************************)
(* Model of src/src/sys/socket/mod.rs (nix, sys::socket): the control      *)
(* message codec (ControlMessage::encode_into, CmsgIterator::next), the    *)
(* scatter-gather calls sendmsg / recvmsg and the generic address          *)
(* conversion sockaddr_storage_to_addr.                                    *)
(*                                                                         *)
(* Layout is that of Linux x86_64: size_t is 8 bytes, little-endian;       *)
(* cmsghdr is {cmsg_len: size_t, cmsg_level: c_int, cmsg_type: c_int}.     *)
(* Memory is modelled as sequences of bytes (0..255).  A usize read from   *)
(* memory is kept as its 8 little-endian bytes, so that values up to       *)
(* 2^64-1 and the wrap-around of usize arithmetic are represented.         *)
(***************************************************************************)
EXTENDS Integers, Sequences, FiniteSets, TLC

(***************************************************************************)
(* Platform constants (libc, Linux x86_64).                                *)
(***************************************************************************)
SizeofCmsghdr == 16
SizeofCmsgData == 8
SizeofUsize == 8
SizeofRawFd == 4
SizeofTimeVal == 16
SOL_SOCKET == 1
SCM_RIGHTS == 1
SCM_TIMESTAMP == 29
AF_UNIX == 1
AF_INET == 2
AF_INET6 == 10
AF_NETLINK == 16
SizeofFamily == 2
SizeofSockaddrIn == 16
SizeofSockaddrIn6 == 28
SizeofSockaddrUn == 110
SizeofSockaddrNl == 12
SizeofSockaddrStorage == 128
SunPathOffset == 2

(***************************************************************************)
(* Bounds of the model.                                                    *)
(***************************************************************************)
MaxMsgs == 2
MaxFds == 2
MaxUnknownLen == 8
MaxPathLen == 3
MaxCalls == 4

(***************************************************************************)
(* Bytes and integers in memory.                                           *)
(***************************************************************************)
RECURSIVE ToLE(_, _)
\* The w little-endian bytes of the natural number n (n < 256^w).
ToLE(n, w) == IF w = 0 THEN << >> ELSE <<n % 256>> \o ToLE(n \div 256, w - 1)

RECURSIVE FromLE(_)
\* The number a little-endian byte sequence holds (used on values < 2^24).
FromLE(b) == IF b = << >> THEN 0 ELSE b[1] + 256 * FromLE(Tail(b))

\* A usize kept as 8 bytes is "small" when only its low 3 bytes are set.
IsSmall(u) == \A i \in 4..Len(u) : u[i] = 0

\* usize comparison  u < n  for a small natural n.
ULess(u, n) == IsSmall(u) /\ FromLE(u) < n

\* usize comparison  u > n  for a small natural n.
UGreater(u, n) == ~IsSmall(u) \/ FromLE(u) > n

RECURSIVE UAddCarry(_, _)
\* u + c on little-endian bytes, as <<bytes, carry out>>.
UAddCarry(u, c) ==
    IF u = << >> THEN << << >>, c >>
    ELSE LET s == u[1] + c
             r == UAddCarry(Tail(u), s \div 256)
         IN  << <<s % 256>> \o r[1], r[2] >>

\* Slice mem[from..from+n) (0-based offsets), cut at the end of mem: the part
\* of a view that lies inside the allocation.
Slice(mem, from, n) ==
    LET hi == IF from + n > Len(mem) THEN Len(mem) ELSE from + n
    IN  SubSeq(mem, from + 1, hi)

\* n bytes of value v.
Fill(n, v) == [i \in 1..n |-> v]

RECURSIVE Flatten(_)
Flatten(ss) == IF ss = << >> THEN << >> ELSE Head(ss) \o Flatten(Tail(ss))

RECURSIVE SumSeq(_)
SumSeq(s) == IF s = << >> THEN 0 ELSE Head(s) + SumSeq(Tail(s))

(***************************************************************************)
(* cmsg_align, on a usize kept as 8 bytes: (len + align_bytes) &           *)
(* !align_bytes.  The addition wraps modulo 2^64 (a build with overflow    *)
(* checks panics instead: see cmsg_align_overflows).                       *)
(***************************************************************************)
cmsg_align_bytes == SizeofCmsgData - 1

\* cmsg_align without the addition of align_bytes: rounds down.
cmsg_align_down(len) ==
    [len EXCEPT ![1] = len[1] - (len[1] % (cmsg_align_bytes + 1))]

cmsg_align(len) ==
    LET sum == UAddCarry(len, cmsg_align_bytes)[1]
    IN  [sum EXCEPT ![1] = sum[1] - (sum[1] % (cmsg_align_bytes + 1))]

\* Whether len + align_bytes overflows usize.
cmsg_align_overflows(len) == UAddCarry(len, cmsg_align_bytes)[2] # 0

\* cmsg_align on a small natural number.
AlignNat(n) == FromLE(cmsg_align(ToLE(n, SizeofUsize)))

(***************************************************************************)
(* ControlMessage, as a record:                                            *)
(*   [kind |-> "ScmRights",    fds   |-> sequence of RawFd, each RawFd its *)
(*                                       4 bytes in memory]                *)
(*   [kind |-> "ScmTimestamp", tv    |-> the 16 bytes of the TimeVal]      *)
(*   [kind |-> "Unknown",      hdr   |-> the 16 bytes of the cmsghdr the   *)
(*                                       message refers to,                *)
(*                             bytes |-> the payload bytes]                *)
(***************************************************************************)
ScmRights(fds) == [kind |-> "ScmRights", fds |-> fds]
ScmTimestamp(tv) == [kind |-> "ScmTimestamp", tv |-> tv]
UnknownCmsg(hdr, bytes) == [kind |-> "Unknown", hdr |-> hdr, bytes |-> bytes]

\* The in-memory bytes of a cmsghdr value.
CmsghdrBytes(cmsg_len, level, type) ==
    cmsg_len \o ToLE(level, 4) \o ToLE(type, 4)

\* The in-memory bytes of a [RawFd] slice and of a TimeVal.
FdsBytes(fds) == Flatten(fds)
TimeValBytes(tv) == tv

\* mem::size_of_val of the payload a message borrows.
PayloadBytes(m) ==
    CASE m.kind = "ScmRights" -> FdsBytes(m.fds)
      [] m.kind = "ScmTimestamp" -> TimeValBytes(m.tv)
      [] m.kind = "Unknown" -> m.bytes

\* ControlMessage::len: the value of CMSG_LEN on the message.
ControlMessage_len(m) == AlignNat(SizeofCmsghdr) + Len(PayloadBytes(m))

\* ControlMessage::space: the value of CMSG_SPACE on the message.
ControlMessage_space(m) == AlignNat(ControlMessage_len(m))

(***************************************************************************)
(* copy_bytes / split_at_mut on the write cursor.  The cursor is           *)
(* [buf, pos, panic]: buf the whole allocation, pos the offset where the   *)
(* remaining mutable slice starts; split_at_mut panics when the slice is   *)
(* shorter than what is split off.                                         *)
(***************************************************************************)
copy_bytes(src, cur) ==
    IF cur.panic \/ cur.pos + Len(src) > Len(cur.buf)
    THEN [cur EXCEPT !.panic = TRUE]
    ELSE [cur EXCEPT
            !.buf = [i \in 1..Len(cur.buf) |->
                        IF i > cur.pos /\ i <= cur.pos + Len(src)
                        THEN src[i - cur.pos] ELSE cur.buf[i]],
            !.pos = cur.pos + Len(src)]

\* let (_padding, remainder) = tmpbuf.split_at_mut(padlen): skips padlen bytes.
skip_padding(padlen, cur) ==
    IF cur.panic \/ cur.pos + padlen > Len(cur.buf)
    THEN [cur EXCEPT !.panic = TRUE]
    ELSE [cur EXCEPT !.pos = cur.pos + padlen]

\* ControlMessage::encode_into.
encode_into(m, cur) ==
    LET padlen == AlignNat(SizeofCmsghdr) - SizeofCmsghdr
        lenb == ToLE(ControlMessage_len(m), SizeofUsize)
    IN  CASE m.kind = "ScmRights" ->
               copy_bytes(FdsBytes(m.fds),
                 skip_padding(padlen,
                   copy_bytes(CmsghdrBytes(lenb, SOL_SOCKET, SCM_RIGHTS), cur)))
          [] m.kind = "ScmTimestamp" ->
               copy_bytes(TimeValBytes(m.tv),
                 skip_padding(padlen,
                   copy_bytes(CmsghdrBytes(lenb, SOL_SOCKET, SCM_TIMESTAMP), cur)))
          [] m.kind = "Unknown" ->
               copy_bytes(m.bytes, copy_bytes(m.hdr, cur))

RECURSIVE encode_all(_, _)
\* for cmsg in cmsgs { cmsg.encode_into(&mut ptr) }
encode_all(ms, cur) ==
    IF ms = << >> THEN cur ELSE encode_all(Tail(ms), encode_into(Head(ms), cur))

\* A byte of a Vec whose length was set without writing it.
Uninit == -1

\* The two sums sendmsg computes over cmsgs.
SendLen(ms) == SumSeq([i \in 1..Len(ms) |-> ControlMessage_len(ms[i])])
SendCapacity(ms) == SumSeq([i \in 1..Len(ms) |-> ControlMessage_space(ms[i])])

\* Vec::<u8>::with_capacity(len); vec.set_len(len)
SendAlloc(ms) == Fill(SendLen(ms), Uninit)

\* The cursor after sendmsg has encoded cmsgs into its fresh buffer.
SendEncode(ms) == encode_all(ms, [buf |-> SendAlloc(ms), pos |-> 0, panic |-> FALSE])

(***************************************************************************)
(* CmsgIterator::next.  The iterator is [off, next] over the RecvMsg's     *)
(* cmsg_buffer mem: self.buf is mem[off..].  A view that reaches past the  *)
(* end of mem reads memory outside the buffer: those bytes are the         *)
(* arbitrary byte g, and the item is marked oob.                           *)
(***************************************************************************)
None == [some |-> FALSE]
IterPanic == [some |-> FALSE, panic |-> TRUE]

\* n bytes of memory at offset from; what lies past the end of mem reads as g.
ReadView(mem, from, n, g) ==
    LET inb == Slice(mem, from, n) IN inb \o Fill(n - Len(inb), g)

\* slice::from_raw_parts(ptr as *const RawFd, n): n descriptors at offset from.
RawFdSlice(mem, from, n, g) ==
    [i \in 1..n |-> ReadView(mem, from + (i - 1) * SizeofRawFd, SizeofRawFd, g)]

\* The number of descriptors the ScmRights arm of next gives the slice.
RightsCount(len) == 1

\* The advance distance with the first header treated as every other one.
aligned_cmsg_len_always(nxt, cmsg_len) == cmsg_align(cmsg_len)

\* The advance distance of a step: CMSG_FIRSTHDR / CMSG_NXTHDR.
aligned_cmsg_len(nxt, cmsg_len) ==
    IF nxt = 0 THEN cmsg_len ELSE cmsg_align(cmsg_len)

\* The Unknown arm with the declared length taken for the payload length.
UnknownArm_fulllen(mem, hdr, len) ==
    [msg |-> UnknownCmsg(Slice(mem, hdr, SizeofCmsghdr),
                         Slice(mem, hdr + SizeofCmsghdr, len + SizeofCmsghdr)),
     view |-> len + SizeofCmsghdr]

\* The arm of the match for anything but the two known pairs: the Unknown
\* message borrows the header at hdr and len bytes of payload.
UnknownArm(mem, hdr, len) ==
    [msg |-> UnknownCmsg(Slice(mem, hdr, SizeofCmsghdr),
                         Slice(mem, hdr + SizeofCmsghdr, len)),
     view |-> len]

\* The match on (cmsg_level, cmsg_type): the message a step yields for the
\* header at offset hdr, whose declared length is cmsg_len, and the number
\* of bytes its payload view spans.
Classify(mem, hdr, cmsg_len, g) ==
    LET level == Slice(mem, hdr + SizeofUsize, 4)
        type == Slice(mem, hdr + SizeofUsize + 4, 4)
        data == hdr + SizeofCmsghdr
        \* len = cmsg_len - sizeof_cmsghdr; a length that is not small
        \* reaches past any buffer of the model
        len == IF IsSmall(cmsg_len) THEN FromLE(cmsg_len) - SizeofCmsghdr
               ELSE Len(mem) + 1
    IN  CASE level = ToLE(SOL_SOCKET, 4) /\ type = ToLE(SCM_RIGHTS, 4) ->
               [msg |-> ScmRights(RawFdSlice(mem, data, RightsCount(len), g)),
                view |-> RightsCount(len) * SizeofRawFd]
          [] level = ToLE(SOL_SOCKET, 4) /\ type = ToLE(SCM_TIMESTAMP, 4) ->
               [msg |-> ScmTimestamp(ReadView(mem, data, SizeofTimeVal, g)),
                view |-> SizeofTimeVal]
          [] OTHER -> UnknownArm(mem, hdr, len)

\* next with a too short declared length skipped over: the call returns
\* None and moves the cursor past the header.
CmsgIterator_next_skipping(mem, it, checks, g) ==
    LET buflen == Len(mem) - it.off
        cmsg_len == Slice(mem, it.off, SizeofUsize)
        adv == aligned_cmsg_len(it.next, cmsg_len)
        c == Classify(mem, it.off, cmsg_len, g)
    IN  IF buflen < SizeofCmsghdr THEN [ret |-> None, it |-> it]
        ELSE IF ULess(cmsg_len, SizeofCmsghdr)
             THEN [ret |-> None,
                   it |-> [off |-> it.off + SizeofCmsghdr, next |-> it.next + 1]]
        ELSE IF it.next # 0 /\ checks /\ cmsg_align_overflows(cmsg_len)
             THEN [ret |-> IterPanic, it |-> it]
        ELSE IF UGreater(adv, buflen) THEN [ret |-> None, it |-> it]
        ELSE [ret |-> [some |-> TRUE, msg |-> c.msg, hdr |-> it.off,
                       cmsg_len |-> cmsg_len, adv |-> FromLE(adv),
                       view |-> c.view,
                       oob |-> it.off + SizeofCmsghdr + c.view > Len(mem)],
              it |-> [off |-> it.off + FromLE(adv), next |-> it.next + 1]]

\* One call of next on the iterator it over mem.  checks: the build has
\* overflow checks (len + align_bytes panics instead of wrapping).
\* Returns [ret, it]: ret is None, IterPanic or
\*   [some |-> TRUE, msg, hdr (offset of the header read), cmsg_len,
\*    adv (the distance advanced), view (bytes the payload view spans),
\*    oob (the view reaches past the end of mem)].
CmsgIterator_next(mem, it, checks, g) ==
    LET buflen == Len(mem) - it.off
        cmsg_len == Slice(mem, it.off, SizeofUsize)
        adv == aligned_cmsg_len(it.next, cmsg_len)
        c == Classify(mem, it.off, cmsg_len, g)
    IN  IF buflen < SizeofCmsghdr THEN [ret |-> None, it |-> it]
        ELSE IF ULess(cmsg_len, SizeofCmsghdr) THEN [ret |-> None, it |-> it]
        ELSE IF it.next # 0 /\ checks /\ cmsg_align_overflows(cmsg_len)
             THEN [ret |-> IterPanic, it |-> it]
        ELSE IF UGreater(adv, buflen) THEN [ret |-> None, it |-> it]
        ELSE [ret |-> [some |-> TRUE, msg |-> c.msg, hdr |-> it.off,
                       cmsg_len |-> cmsg_len, adv |-> FromLE(adv),
                       view |-> c.view,
                       oob |-> it.off + SizeofCmsghdr + c.view > Len(mem)],
              it |-> [off |-> it.off + FromLE(adv), next |-> it.next + 1]]

(***************************************************************************)
(* SockAddr, as a record:                                                  *)
(*   [kind |-> "Inet4",   sa |-> the 16 bytes of the sockaddr_in]          *)
(*   [kind |-> "Inet6",   sa |-> the 28 bytes of the sockaddr_in6]         *)
(*   [kind |-> "Unix",    sa |-> the 110 bytes of the sockaddr_un,         *)
(*                        pathlen |-> the path length]                     *)
(*   [kind |-> "Netlink", sa |-> the 12 bytes of the sockaddr_nl]          *)
(* and the Result of a conversion: Ok(addr), Err(errno) or a panic.        *)
(***************************************************************************)
Ok(v) == [tag |-> "Ok", val |-> v]
Err(e) == [tag |-> "Err", errno |-> e]
Panic(why) == [tag |-> "Panic", why |-> why]

\* Result::ok
ResultOk(r) == IF r.tag = "Ok" THEN [some |-> TRUE, val |-> r.val] ELSE None

\* The conversion without its length check.
TooShort_never(len) == FALSE

\* if len < mem::size_of_val(&addr.ss_family)
TooShort(len) == len < SizeofFamily

\* The AF_INET arm.
Inet4Arm(addr, len) ==
    IF len = SizeofSockaddrIn
    THEN Ok([kind |-> "Inet4", sa |-> Slice(addr, 0, SizeofSockaddrIn)])
    ELSE Panic("assertion failed")

\* The AF_INET6 arm.
Inet6Arm(addr, len) ==
    IF len = SizeofSockaddrIn6
    THEN Ok([kind |-> "Inet6", sa |-> Slice(addr, 0, SizeofSockaddrIn6)])
    ELSE Panic("assertion failed")

\* The AF_UNIX arm with the capacity of sun_path for the path length.
UnixArm_capacity(addr, len) ==
    Ok([kind |-> "Unix", sa |-> Slice(addr, 0, SizeofSockaddrUn),
        pathlen |-> SizeofSockaddrUn - SunPathOffset])

\* The AF_UNIX arm.
UnixArm(addr, len) ==
    Ok([kind |-> "Unix", sa |-> Slice(addr, 0, SizeofSockaddrUn),
        pathlen |-> len - SunPathOffset])

\* The AF_NETLINK arm.
NetlinkArm(addr, len) ==
    Ok([kind |-> "Netlink", sa |-> Slice(addr, 0, SizeofSockaddrNl)])

\* An unknown family reported as an ordinary error.
UnexpectedFamily_err(af) == Err("EAFNOSUPPORT")

\* The arm of the match for a family that is none of the known ones.
UnexpectedFamily(af) == Panic("unexpected address family")

\* sockaddr_storage_to_addr(addr, len): addr the 128 bytes of the
\* sockaddr_storage, len the declared length.
sockaddr_storage_to_addr(addr, len) ==
    LET ss_family == FromLE(Slice(addr, 0, SizeofFamily)) IN
    IF TooShort(len) THEN Err("ENOTCONN")
    ELSE CASE ss_family = AF_INET -> Inet4Arm(addr, len)
           [] ss_family = AF_INET6 -> Inet6Arm(addr, len)
           [] ss_family = AF_UNIX -> UnixArm(addr, len)
           [] ss_family = AF_NETLINK -> NetlinkArm(addr, len)
           [] OTHER -> UnexpectedFamily(ss_family)

\* Errno::result: the error of a raw call's negative return, else its value.
Errno_result(ret) == IF ret < 0 THEN Err("errno") ELSE Ok(ret)

(***************************************************************************)
(* sendmsg: what the call builds and returns for the control messages ms,  *)
(* when the raw sendmsg returns ret.                                       *)
(***************************************************************************)
sendmsg(ms, ret) ==
    LET cur == SendEncode(ms)
        capacity == SendCapacity(ms)
    IN  [cmsg_buffer |-> cur.buf,
         msg_control_null |-> ~(capacity > 0),
         msg_controllen |-> capacity,
         raw_calls |-> IF cur.panic THEN 0 ELSE 1,
         ret |-> ret,
         result |-> IF cur.panic THEN Panic("split_at_mut") ELSE Errno_result(ret)]

(***************************************************************************)
(* recvmsg: the result of the call when the raw recvmsg returns ret,       *)
(* reports the control bytes ctl (msg_control[..msg_controllen]) and       *)
(* leaves the address buffer holding storage with msg_namelen = namelen.   *)
(***************************************************************************)
recvmsg(ret, ctl, storage, namelen) ==
    LET bytes == Errno_result(ret)
        address == sockaddr_storage_to_addr(storage, namelen)
    IN  IF bytes.tag # "Ok" THEN bytes
        ELSE IF address.tag = "Panic" THEN address
        ELSE Ok([bytes |-> bytes.val, cmsg_buffer |-> ctl,
                 address |-> ResultOk(address)])

\* getsockname: the result when the raw getsockname returns ret and leaves
\* the address buffer holding storage with len.
getsockname(ret, storage, len) ==
    IF Errno_result(ret).tag # "Ok" THEN Errno_result(ret)
    ELSE sockaddr_storage_to_addr(storage, len)

(***************************************************************************)
(* SockAddr::as_ffi_pair and the constructors of the address variants      *)
(* (sys/socket/addr.rs): the structure and the length handed to the        *)
(* kernel.                                                                 *)
(***************************************************************************)
as_ffi_pair(a) ==
    IF a.kind = "Unix" THEN <<a.sa, a.pathlen + SunPathOffset>>
    ELSE <<a.sa, Len(a.sa)>>

\* SockAddr::new_inet for an IPv4 host and port (sin_port, sin_addr in
\* network byte order, sin_zero zeroed).
new_inet4(ip, port) ==
    [kind |-> "Inet4",
     sa |-> ToLE(AF_INET, SizeofFamily) \o <<port \div 256, port % 256>> \o ip
            \o Fill(8, 0)]

\* SockAddr::new_inet for an IPv6 host and port (flowinfo and scope id 0).
new_inet6(ip, port) ==
    [kind |-> "Inet6",
     sa |-> ToLE(AF_INET6, SizeofFamily) \o <<port \div 256, port % 256>>
            \o Fill(4, 0) \o ip \o Fill(4, 0)]

\* SockAddr::new_unix for a path: sun_path holds the path, zero filled.
new_unix(path) ==
    [kind |-> "Unix",
     sa |-> ToLE(AF_UNIX, SizeofFamily) \o path
            \o Fill(SizeofSockaddrUn - SunPathOffset - Len(path), 0),
     pathlen |-> Len(path)]

(***************************************************************************)
(* The inputs the model draws from.                                        *)
(***************************************************************************)
\* Distinct descriptors 3, 260, 517, ...
FdAt(i) == ToLE(257 * (i - 1) + 3, SizeofRawFd)
PayloadAt(i) == 100 + i
TimeValInput == ToLE(1000, 8) \o ToLE(250000, 8)
\* Two (level, type) pairs the iterator does not know: SOL_SOCKET with
\* SCM_CREDENTIALS (2), and IPPROTO_IP (0) with the type value of SCM_RIGHTS.
SCM_CREDENTIALS == SCM_RIGHTS + 1
IPPROTO_IP == SOL_SOCKET - 1
UsizeMax == Fill(SizeofUsize, 255)

\* An Unknown message as the iterator builds it: its header declares the
\* header size plus the payload length.
UnknownInput(level, type, n) ==
    UnknownCmsg(CmsghdrBytes(ToLE(SizeofCmsghdr + n, SizeofUsize), level, type),
                [i \in 1..n |-> PayloadAt(i)])

CmsgInputs ==
    {ScmRights([i \in 1..n |-> FdAt(i)]) : n \in 0..MaxFds}
    \cup {ScmTimestamp(TimeValInput)}
    \cup {UnknownInput(SOL_SOCKET, SCM_CREDENTIALS, n) : n \in 0..MaxUnknownLen}
    \cup {UnknownInput(IPPROTO_IP, SCM_RIGHTS, 4)}

CmsgListInputs ==
    UNION {[1..n -> CmsgInputs] : n \in 0..MaxMsgs}

\* The returns of a raw call: failure, nothing transferred, some bytes.
RawReturns == {-1, 0, 7}

\* Bytes read from outside a buffer.
OobBytes == {0, 255}

\* Records a peer or the kernel may put in a control buffer: a header with
\* a declared length and a type, followed by body bytes.
RawTypes ==
    {<<SOL_SOCKET, SCM_RIGHTS>>, <<SOL_SOCKET, SCM_TIMESTAMP>>,
     <<SOL_SOCKET, SCM_CREDENTIALS>>}
RawShapes ==
    {<<ToLE(16, 8), 0>>, <<ToLE(20, 8), 4>>, <<ToLE(20, 8), 8>>,
     <<ToLE(24, 8), 8>>, <<ToLE(32, 8), 16>>, <<ToLE(15, 8), 0>>,
     <<UsizeMax, 0>>}
RawRecords ==
    {CmsghdrBytes(sh[1], t[1], t[2]) \o [i \in 1..sh[2] |-> PayloadAt(i)] :
        sh \in RawShapes, t \in RawTypes}
RawBuffers ==
    {<< >>} \cup RawRecords \cup {a \o b : a \in RawRecords, b \in RawRecords}
\* Records padded to the alignment unit, as the kernel lays them out, and
\* buffers of three records whose later two are padded.
PaddedShapes == {<<ToLE(20, 8), 8>>, <<ToLE(24, 8), 8>>}
PaddedRecords ==
    {CmsghdrBytes(sh[1], t[1], t[2]) \o [i \in 1..sh[2] |-> PayloadAt(i)] :
        sh \in PaddedShapes, t \in RawTypes}
RawTriples ==
    {a \o b \o c : a \in RawRecords, b \in PaddedRecords, c \in PaddedRecords}

\* Address buffers the kernel may leave: a family and arbitrary bytes.
\* AF_PACKET (17): a family the conversion has no arm for.
AF_PACKET == AF_NETLINK + 1
FamilyInputs == {0, AF_UNIX, AF_INET, AF_INET6, AF_NETLINK, AF_PACKET, 256 + AF_INET}
StorageInputs ==
    {ToLE(f, SizeofFamily) \o Fill(SizeofSockaddrStorage - SizeofFamily, v) :
        f \in FamilyInputs, v \in {0, 47}}

\* The address buffer of recvmsg when the kernel stores no address in it.
UninitStorage == Fill(SizeofSockaddrStorage, Uninit)

\* Addresses a caller builds.
AddrInputs ==
    {new_inet4(<<127, 0, 0, 1>>, p) : p \in {0, 8080}}
    \cup {new_inet6(Fill(15, 0) \o <<1>>, p) : p \in {0, 8080}}
    \cup {new_unix([i \in 1..n |-> 47 + i]) : n \in 0..MaxPathLen}

(***************************************************************************)
(* The state.                                                              *)
(***************************************************************************)
VARIABLES
    pc,       \* "idle", "sent", "received", "iterating", "converted"
    cmsgs,    \* the control messages given to sendmsg
    sent,     \* what sendmsg built and returned
    rcv,      \* what recvmsg returned
    iter,     \* the CmsgIterator: [off, next, build]
    last,     \* what the last call of next returned
    yielded,  \* the items next has yielded, in order
    ncalls,   \* the calls of next made
    conv      \* the last address conversion: its inputs and result

vars == <<pc, cmsgs, sent, rcv, iter, last, yielded, ncalls, conv>>

NoCall == [tag |-> "NoCall"]

Init ==
    /\ pc = "idle"
    /\ cmsgs = << >>
    /\ sent = NoCall
    /\ rcv = NoCall
    /\ iter = NoCall
    /\ last = NoCall
    /\ yielded = << >>
    /\ ncalls = 0
    /\ conv = NoCall

\* A caller sends the control messages ms.
Sendmsg ==
    /\ pc = "idle"
    /\ \E ms \in CmsgListInputs, ret \in RawReturns :
          /\ cmsgs' = ms
          /\ sent' = sendmsg(ms, ret)
    /\ pc' = "sent"
    /\ UNCHANGED <<rcv, iter, last, yielded, ncalls, conv>>

\* The control bytes sendmsg encoded are received as they are (no address).
RecvmsgLoopback ==
    /\ pc = "sent"
    /\ sent.result.tag = "Ok"
    /\ rcv' = recvmsg(sent.result.val, sent.cmsg_buffer, UninitStorage, 0)
    /\ pc' = "received"
    /\ UNCHANGED <<cmsgs, sent, iter, last, yielded, ncalls, conv>>

\* A message arrives with control bytes of a peer or the kernel, cut at any
\* offset (no address).
RecvmsgCtl ==
    /\ pc = "idle"
    /\ \/ \E b \in RawBuffers :
             \E k \in 0..Len(b) :
                rcv' = recvmsg(7, Slice(b, 0, k), UninitStorage, 0)
       \/ \E b \in RawTriples :
             rcv' = recvmsg(7, b, UninitStorage, 0)
    /\ pc' = "received"
    /\ UNCHANGED <<cmsgs, sent, iter, last, yielded, ncalls, conv>>

\* A message arrives with an address and no control buffer.
RecvmsgAddr ==
    /\ pc = "idle"
    /\ \E ret \in RawReturns, storage \in StorageInputs,
          namelen \in 0..SizeofSockaddrStorage :
          /\ rcv' = recvmsg(ret, << >>, storage, namelen)
          /\ conv' = [op |-> "recvmsg", ret |-> ret, storage |-> storage,
                      len |-> namelen, called |-> ret >= 0,
                      raw_calls |-> 1,
                      result |-> IF ret >= 0
                                 THEN sockaddr_storage_to_addr(storage, namelen)
                                 ELSE NoCall]
    /\ pc' = "received"
    /\ UNCHANGED <<cmsgs, sent, iter, last, yielded, ncalls>>

\* RecvMsg::cmsgs
Cmsgs ==
    /\ pc = "received"
    /\ rcv.tag = "Ok"
    /\ iter' = [off |-> 0, next |-> 0, build |-> "any"]
    /\ pc' = "iterating"
    /\ UNCHANGED <<cmsgs, sent, rcv, last, yielded, ncalls, conv>>

\* One call of next.  The build (with or without overflow checks) is fixed
\* from the first overflow on.
IterNext ==
    /\ pc = "iterating"
    /\ last # IterPanic
    /\ ncalls < MaxCalls
    /\ \E checks \in BOOLEAN, g \in OobBytes :
          LET r == CmsgIterator_next(rcv.val.cmsg_buffer, iter, checks, g)
              hdr == Slice(rcv.val.cmsg_buffer, iter.off, SizeofUsize)
              ovf == /\ Len(rcv.val.cmsg_buffer) - iter.off >= SizeofCmsghdr
                     /\ iter.next # 0
                     /\ cmsg_align_overflows(hdr)
          IN  /\ iter.build = "checked" => checks
              /\ iter.build = "wrapping" => ~checks
              /\ last' = r.ret
              /\ iter' = [off |-> r.it.off, next |-> r.it.next,
                          build |-> IF ~ovf THEN iter.build
                                    ELSE IF checks THEN "checked" ELSE "wrapping"]
              /\ yielded' = IF r.ret.some THEN Append(yielded, r.ret) ELSE yielded
    /\ ncalls' = ncalls + 1
    /\ UNCHANGED <<pc, cmsgs, sent, rcv, conv>>

\* getsockname: the kernel leaves an address buffer and a length.
Getsockname ==
    /\ pc = "idle"
    /\ \E ret \in {-1, 0}, storage \in StorageInputs,
          len \in 0..SizeofSockaddrStorage :
          conv' = [op |-> "getsockname", ret |-> ret, storage |-> storage,
                   len |-> len, called |-> ret >= 0,
                   result |-> getsockname(ret, storage, len)]
    /\ pc' = "converted"
    /\ UNCHANGED <<cmsgs, sent, rcv, iter, last, yielded, ncalls>>

\* An address is handed to the kernel (as_ffi_pair) and read back from it:
\* the kernel stores the declared length of bytes, the rest of the buffer
\* stays as it was.
AddrRoundTrip ==
    /\ pc = "idle"
    /\ \E a \in AddrInputs, g \in OobBytes :
          LET pair == as_ffi_pair(a)
              storage == Slice(pair[1], 0, pair[2])
                         \o Fill(SizeofSockaddrStorage - pair[2], g)
          IN  conv' = [op |-> "roundtrip", input |-> a, storage |-> storage,
                       len |-> pair[2], called |-> TRUE,
                       result |-> sockaddr_storage_to_addr(storage, pair[2])]
    /\ pc' = "converted"
    /\ UNCHANGED <<cmsgs, sent, rcv, iter, last, yielded, ncalls>>

Next ==
    \/ Sendmsg
    \/ RecvmsgLoopback
    \/ RecvmsgCtl
    \/ RecvmsgAddr
    \/ Cmsgs
    \/ IterNext
    \/ Getsockname
    \/ AddrRoundTrip

Spec == Init /\ [][Next]_vars

(***************************************************************************)
(* Properties.                                                             *)
(***************************************************************************)
\* The control buffer the iterator walks, and the messages it has yielded.
Buf == rcv.val.cmsg_buffer
Decoded == [i \in 1..Len(yielded) |-> yielded[i].msg]
FamilyOf(storage) == FromLE(Slice(storage, 0, SizeofFamily))
KnownFamilies == {AF_UNIX, AF_INET, AF_INET6, AF_NETLINK}
LevelAt(hdr) == Slice(Buf, hdr + SizeofUsize, 4)
TypeAt(hdr) == Slice(Buf, hdr + SizeofUsize + 4, 4)
KnownPairAt(hdr) ==
    /\ LevelAt(hdr) = ToLE(SOL_SOCKET, 4)
    /\ TypeAt(hdr) \in {ToLE(SCM_RIGHTS, 4), ToLE(SCM_TIMESTAMP, 4)}
\* The smallest multiple of the alignment unit that is >= n.
PaddedTo(n) == ((n + SizeofCmsgData - 1) \div SizeofCmsgData) * SizeofCmsgData

\* C1 (as claimed): when the messages sendmsg encoded are decoded from the
\* buffer it built and the iterator has reported the end, the messages
\* yielded are the messages sent: as many, in the same order, each equal in
\* type and payload.
C1_RoundTrip ==
    (pc = "iterating" /\ sent # NoCall /\ cmsgs # << >> /\ last = None)
        => Decoded = cmsgs

\* C2 (as claimed): every header the iterator reads and the payload view of
\* every message it yields lie inside the control buffer.
C2_ViewsInsideBuffer ==
    pc = "iterating" =>
        \A i \in 1..Len(yielded) :
            /\ yielded[i].hdr + SizeofCmsghdr <= Len(Buf)
            /\ ~yielded[i].oob

\* C3: for every message given to sendmsg, with payload length L, the padded
\* length (space) is a multiple of the alignment unit, is at least
\* header size + L, and is less than one unit above it.
C3_AlignmentSmallestMultiple ==
    \A i \in 1..Len(cmsgs) :
        LET L == Len(PayloadBytes(cmsgs[i]))
            sp == ControlMessage_space(cmsgs[i])
        IN  /\ sp % SizeofCmsgData = 0
            /\ sp >= SizeofCmsghdr + L
            /\ sp - SizeofCmsgData < SizeofCmsghdr + L

\* C3 witness: sendmsg was given a message whose header size + L is not a
\* multiple of the unit, and whose space is the next multiple.
C3_Witness ==
    /\ pc = "sent"
    /\ \E i \in 1..Len(cmsgs) :
          /\ (SizeofCmsghdr + Len(PayloadBytes(cmsgs[i]))) % SizeofCmsgData = 5
          /\ ControlMessage_space(cmsgs[i]) = SizeofCmsghdr + SizeofCmsgData

\* C4 (as claimed): a recvmsg whose raw call returned a count >= 0 returns
\* Ok with that count, whatever the address buffer holds; when the address
\* does not decode, the address of the result is None.
C4_AddressNeverMasksReceive ==
    (conv # NoCall /\ conv.op = "recvmsg" /\ conv.ret >= 0) =>
        /\ rcv.tag = "Ok"
        /\ rcv.val.bytes = conv.ret
        /\ conv.result.tag # "Ok" => rcv.val.address = None

\* C5: a conversion whose declared length covers the family field and whose
\* family is none of the recognized ones panics: it returns neither an
\* error nor an address (and the recvmsg making it panics with it).
C5_UnexpectedFamilyIsFatal ==
    (/\ conv # NoCall
     /\ conv.called
     /\ conv.len >= SizeofFamily
     /\ FamilyOf(conv.storage) \notin KnownFamilies)
        => /\ conv.result.tag = "Panic"
           /\ conv.op = "recvmsg" => rcv.tag = "Panic"

\* C5 witness: getsockname converted an AF_PACKET address of 20 bytes.
C5_Witness ==
    /\ conv # NoCall
    /\ conv.op = "getsockname"
    /\ conv.called
    /\ conv.len = 20
    /\ FamilyOf(conv.storage) = AF_PACKET
    /\ conv.result.tag = "Panic"

\* C6: an IPv4 or IPv6 address handed to the kernel in generic form and
\* converted back is the same address; a Unix address with a path of n
\* bytes comes back as a Unix address with path length n and the same n
\* path bytes.
C6_AddressRoundTrip ==
    (conv # NoCall /\ conv.op = "roundtrip") =>
        /\ conv.result.tag = "Ok"
        /\ conv.input.kind \in {"Inet4", "Inet6"} => conv.result.val = conv.input
        /\ conv.input.kind = "Unix" =>
              /\ conv.result.val.kind = "Unix"
              /\ conv.result.val.pathlen = conv.input.pathlen
              /\ conv.len = SunPathOffset + conv.input.pathlen
              /\ Slice(conv.result.val.sa, SunPathOffset, conv.input.pathlen)
                    = Slice(conv.input.sa, SunPathOffset, conv.input.pathlen)

\* C6 witness: a Unix address with a 3 byte path made the round trip, the
\* rest of the kernel's buffer holding other bytes than the structure.
C6_Witness ==
    /\ conv # NoCall
    /\ conv.op = "roundtrip"
    /\ conv.input.kind = "Unix"
    /\ conv.input.pathlen = 3
    /\ conv.result.tag = "Ok"
    /\ conv.result.val.sa # conv.input.sa

\* What encode_into writes for the message m into a buffer of m.len() bytes.
ReEncode(m) ==
    encode_into(m, [buf |-> Fill(ControlMessage_len(m), Uninit), pos |-> 0,
                    panic |-> FALSE])

\* C7: for every message the iterator yields from a header that lies with
\* its declared length inside the buffer and whose (level, type) is neither
\* the rights nor the timestamp pair: the message is Unknown, its header is
\* the 16 header bytes of the buffer (level and type with them), its payload
\* is the declared length - 16 bytes that follow, and encoding it again
\* writes the header and payload bytes of the buffer.
C7_UnknownPreserved ==
    pc = "iterating" =>
        \A i \in 1..Len(yielded) :
            LET y == yielded[i]
                n == FromLE(y.cmsg_len)
            IN  (/\ IsSmall(y.cmsg_len)
                 /\ y.hdr + n <= Len(Buf)
                 /\ ~KnownPairAt(y.hdr))
                  => /\ y.msg.kind = "Unknown"
                     /\ y.msg.hdr = SubSeq(Buf, y.hdr + 1, y.hdr + SizeofCmsghdr)
                     /\ Len(y.msg.bytes) = n - SizeofCmsghdr
                     /\ y.msg.bytes = SubSeq(Buf, y.hdr + SizeofCmsghdr + 1, y.hdr + n)
                     /\ ~ReEncode(y.msg).panic
                     /\ ReEncode(y.msg).buf = SubSeq(Buf, y.hdr + 1, y.hdr + n)

\* C7 witness: the second message yielded is an Unknown one with payload.
C7_Witness ==
    /\ pc = "iterating"
    /\ Len(yielded) = 2
    /\ yielded[2].msg.kind = "Unknown"
    /\ Len(yielded[2].msg.bytes) = 8
    /\ ~KnownPairAt(yielded[2].hdr)

\* Whether the buffer starts with a rights header declaring the whole
\* buffer as its length.
OneRightsMessage ==
    /\ Len(Buf) >= SizeofCmsghdr
    /\ LevelAt(0) = ToLE(SOL_SOCKET, 4)
    /\ TypeAt(0) = ToLE(SCM_RIGHTS, 4)
    /\ Slice(Buf, 0, SizeofUsize) = ToLE(Len(Buf), SizeofUsize)

\* C8: a buffer holding one rights message whose declared (unpadded) length
\* is the buffer length yields that message and then ends; the first
\* message yielded is read at offset 0 and advances the cursor by its
\* declared length, every later one by its padded length, and each header
\* is read where the message before it left the cursor.
C8_FirstMessageAsymmetry ==
    pc = "iterating" =>
        /\ (OneRightsMessage /\ ncalls >= 1) =>
              /\ Len(yielded) = 1
              /\ yielded[1].msg.kind = "ScmRights"
              /\ iter.off = Len(Buf)
              /\ ncalls = 1 => last = yielded[1]
              /\ ncalls >= 2 => last = None
        /\ \A i \in 1..Len(yielded) :
              LET y == yielded[i] IN
              IsSmall(y.cmsg_len) =>
                 /\ y.hdr = IF i = 1 THEN 0 ELSE yielded[i - 1].hdr + yielded[i - 1].adv
                 /\ y.adv = IF i = 1 THEN FromLE(y.cmsg_len)
                            ELSE PaddedTo(FromLE(y.cmsg_len))

\* C8 witness: a rights message declaring 20 bytes was followed by a header
\* at offset 20, whose message declared 20 bytes and advanced the cursor
\* by 24, to a third header at offset 44.
C8_Witness ==
    /\ pc = "iterating"
    /\ Len(yielded) = 3
    /\ yielded[1].msg.kind = "ScmRights"
    /\ yielded[1].adv = 20
    /\ yielded[2].hdr = 20
    /\ yielded[2].cmsg_len = ToLE(20, SizeofUsize)
    /\ yielded[2].adv = 24
    /\ yielded[3].hdr = 44

\* The structure size of the families with a fixed-size address.
ExactSizeOf(af) ==
    CASE af = AF_INET -> SizeofSockaddrIn
      [] af = AF_INET6 -> SizeofSockaddrIn6
      [] af = AF_NETLINK -> SizeofSockaddrNl

\* C9 (as claimed): a conversion of a buffer whose family is IPv4, IPv6 or
\* netlink returns an address only for a declared length equal to the
\* structure size of the family; for any other declared length (that covers
\* the family field) it fails its assertion.
C9_ExactSizeContract ==
    (/\ conv # NoCall
     /\ conv.called
     /\ conv.len >= SizeofFamily
     /\ FamilyOf(conv.storage) \in {AF_INET, AF_INET6, AF_NETLINK})
        => IF conv.len = ExactSizeOf(FamilyOf(conv.storage))
           THEN conv.result.tag = "Ok"
           ELSE conv.result.tag = "Panic"

\* C10: a conversion with a declared length smaller than the family field
\* returns Err(ENOTCONN), whatever the buffer holds.
C10_TooShortIsRecoverable ==
    (conv # NoCall /\ conv.called /\ conv.len < SizeofFamily)
        => conv.result = Err("ENOTCONN")

\* C10 witness: a buffer whose family bytes read AF_PACKET was converted
\* with declared length 1.
C10_Witness ==
    /\ conv # NoCall
    /\ conv.op = "getsockname"
    /\ conv.called
    /\ conv.len = 1
    /\ FamilyOf(conv.storage) = AF_PACKET
    /\ conv.result = Err("ENOTCONN")

\* C11 (as claimed): every sendmsg and every recvmsg makes its raw call
\* once; a negative return of the raw call is the Err the caller gets (for
\* recvmsg, with no address conversion made), and a return >= 0 is the byte
\* count of the Ok result the caller gets.
C11_RawCallOnceAndPropagated ==
    /\ sent # NoCall =>
          /\ sent.raw_calls = 1
          /\ sent.ret < 0 => sent.result = Err("errno")
          /\ sent.ret >= 0 => sent.result = Ok(sent.ret)
    /\ (conv # NoCall /\ conv.op = "recvmsg") =>
          /\ conv.raw_calls = 1
          /\ conv.ret < 0 => (rcv = Err("errno") /\ ~conv.called)
          /\ conv.ret >= 0 => (rcv.tag = "Ok" /\ rcv.val.bytes = conv.ret)

\* C12 (as claimed): the buffer sendmsg allocates and encodes into has as
\* many bytes as the sum of the padded lengths (space) of the messages, and
\* that number is the msg_controllen given to the raw call: the declared
\* length is never more than the buffer holds.
C12_ControlLenIsBufferSize ==
    sent # NoCall =>
        /\ Len(sent.cmsg_buffer)
              = SumSeq([i \in 1..Len(cmsgs) |-> ControlMessage_space(cmsgs[i])])
        /\ sent.msg_controllen = Len(sent.cmsg_buffer)
        /\ sent.msg_controllen <= Len(sent.cmsg_buffer)

\* The declared total length of the header at the cursor.
DeclaredLenAt(off) == Slice(Buf, off, SizeofUsize)

\* The advance distance of the step at the cursor, as the specification
\* defines it: the declared length for the first message, the declared
\* length rounded up to the alignment unit for every later one.
AdvanceDistance(off, nxt) ==
    IF nxt = 0 THEN FromLE(DeclaredLenAt(off))
    ELSE PaddedTo(FromLE(DeclaredLenAt(off)))

\* The three stop conditions of a decode step at the cursor (a declared
\* length that is not small exceeds every buffer of the model, padded or
\* not).
StopCondition(off, nxt) ==
    \/ Len(Buf) - off < SizeofCmsghdr
    \/ ULess(DeclaredLenAt(off), SizeofCmsghdr)
    \/ ~IsSmall(DeclaredLenAt(off))
    \/ AdvanceDistance(off, nxt) > Len(Buf) - off

\* C13 (as claimed): a call of next returns None, leaving the cursor where
\* it is, exactly when the remaining buffer is shorter than a header, or
\* the declared length is shorter than a header, or the advance distance
\* exceeds the remaining buffer; any other call yields one message and
\* moves the cursor by the advance distance.  No call fails.
C13_StopConditions ==
    [][(pc = "iterating" /\ ncalls' = ncalls + 1) =>
          IF StopCondition(iter.off, iter.next)
          THEN /\ last' = None
               /\ yielded' = yielded
               /\ iter'.off = iter.off
          ELSE /\ last'.some
               /\ yielded' = Append(yielded, last')
               /\ iter'.off = iter.off + AdvanceDistance(iter.off, iter.next)]_vars

\* Whether the header at offset hdr carries the rights pair.
RightsPairAt(hdr) ==
    /\ LevelAt(hdr) = ToLE(SOL_SOCKET, 4)
    /\ TypeAt(hdr) = ToLE(SCM_RIGHTS, 4)

\* C14 (as claimed): every message yielded from a header with the rights
\* pair, whose declared length lies inside the buffer, is ScmRights and
\* holds (declared length - header size) / descriptor size descriptors:
\* the descriptors of the payload, in the order of the buffer.
C14_RightsHoldsAllDescriptors ==
    pc = "iterating" =>
        \A i \in 1..Len(yielded) :
            LET y == yielded[i]
                n == (FromLE(y.cmsg_len) - SizeofCmsghdr) \div SizeofRawFd
            IN  (/\ IsSmall(y.cmsg_len)
                 /\ y.hdr + FromLE(y.cmsg_len) <= Len(Buf)
                 /\ RightsPairAt(y.hdr))
                  => /\ y.msg.kind = "ScmRights"
                     /\ Len(y.msg.fds) = n
                     /\ \A k \in 1..n :
                           y.msg.fds[k]
                              = Slice(Buf, y.hdr + SizeofCmsghdr
                                           + (k - 1) * SizeofRawFd, SizeofRawFd)

\* C15: a call of next made after a call that returned None returns None
\* again, yields nothing and leaves the cursor where it is; no call of next
\* moves the cursor backwards or past the end of the buffer (what remains
\* is a suffix of what remained before), and no call changes the bytes of
\* the buffer.
C15_EndIsPermanent ==
    [][(pc = "iterating" /\ ncalls' = ncalls + 1) =>
          /\ last = None =>
                /\ last' = None
                /\ yielded' = yielded
                /\ iter'.off = iter.off
          /\ iter'.off >= iter.off
          /\ iter'.off <= Len(Buf)
          /\ rcv' = rcv]_vars

\* C15 witness: two messages were yielded from the buffer, the third call
\* returned None and so did the fourth, the cursor still where the second
\* message left it.
C15_Witness ==
    /\ pc = "iterating"
    /\ ncalls = 4
    /\ Len(yielded) = 2
    /\ last = None
    /\ iter.next = 2
    /\ iter.off = yielded[2].hdr + yielded[2].adv
    /\ iter.off > yielded[2].hdr

\* C16 (as claimed): every message the iterator yields moved the cursor on
\* by at least the size of a header, so that the messages yielded from a
\* buffer are never more than its length / header size.
C16_FinitelyManyMessages ==
    pc = "iterating" =>
        /\ \A i \in 1..Len(yielded) : yielded[i].adv >= SizeofCmsghdr
        /\ Len(yielded) <= Len(Buf) \div SizeofCmsghdr

\* The offset in sendmsg's buffer at which the header of the i-th message
\* is written: where the cursor stands after the messages before it.
HeaderOffset(ms, i) ==
    encode_all(SubSeq(ms, 1, i - 1),
               [buf |-> SendAlloc(ms), pos |-> 0, panic |-> FALSE]).pos

\* C17 (as claimed): in the buffer sendmsg builds, the header of the i-th
\* message starts at the sum of the padded lengths (space) of the messages
\* before it, a multiple of the alignment unit, and the bytes written for
\* all the messages end where the allocated buffer ends.
C17_HeadersAtPaddedOffsets ==
    sent # NoCall =>
        /\ \A i \in 1..Len(cmsgs) :
              /\ HeaderOffset(cmsgs, i)
                    = SumSeq([j \in 1..(i - 1) |-> ControlMessage_space(cmsgs[j])])
              /\ HeaderOffset(cmsgs, i) % SizeofCmsgData = 0
        /\ HeaderOffset(cmsgs, Len(cmsgs) + 1) = Len(sent.cmsg_buffer)

\* C18 (as claimed): a conversion of a buffer whose family is AF_UNIX, with
\* a declared length from the size of the family field to the size of
\* sockaddr_storage, returns a Unix address whose path length is at least 0
\* (declared length - offset of sun_path does not underflow) and at most
\* the capacity of sun_path.
C18_UnixPathLenInField ==
    (/\ conv # NoCall
     /\ conv.called
     /\ conv.len >= SizeofFamily
     /\ conv.len <= SizeofSockaddrStorage
     /\ FamilyOf(conv.storage) = AF_UNIX)
        => /\ conv.result.tag = "Ok"
           /\ conv.result.val.kind = "Unix"
           /\ conv.result.val.pathlen >= 0
           /\ conv.result.val.pathlen <= SizeofSockaddrUn - SunPathOffset

=============================================================================
